---- MODULE Spec2Model ----
(***************************************************************************)
(* State machine of the night-sky page: the meteor scheduler (meteors.js), *)
(* the star renderer (stars.js part of meteors.js) and the lifecycle that  *)
(* main.js wires around them (load, visibilitychange, resize).             *)
(*                                                                         *)
(* The browser is modelled by two queues: `timers` holds the setTimeout    *)
(* callbacks that are pending, `frames` the requestAnimationFrame          *)
(* callbacks that are pending.  Every handler of the program is one        *)
(* action; it runs to completion, as on the single JavaScript thread.      *)
(***************************************************************************)
EXTENDS Integers, FiniteSets, Sequences, Bags, TLC

\* ------------------------------------------------------------------------
\* Bounds of the model
\* ------------------------------------------------------------------------

\* Largest number of meteor elements explored in the container at once.
MaxMeteors == 1

\* Largest burst explored (the burst size is showerCountMin..showerCountMax
\* in config.js; the model explores bursts of 1..MaxBurst meteors).
MaxBurst == 1

\* Largest number of pending timers whose ID the program does not hold that
\* a visibility change may leave behind (bounds how fast the tab toggles).
MaxUntracked == 4

\* ------------------------------------------------------------------------
\* Program constants (config.js)
\* ------------------------------------------------------------------------

singleMeteorStreamCount == 2

\* Start positions, in percent, and shower seed angles, in degrees.
startXMin == 90
startXMax == 120
startYMinWhenXOutOfBounds == -10
startYMinWhenXInBounds == -40
startYMax == 50
angleMin == 130
angleMax == 160

showerCountMin == 6
showerCountMax == 12
showerIntervalMin == 80
showerIntervalMax == 230
showerCleanupDelayPerMeteor == 250
showerCleanupDelayBase == 2000

\* Star counts and the viewport width that separates them.
countDesktop == 1200
countMobile == 800
mobileBreakpoint == 768

\* Probabilities and opacities, in thousandths.
staticPercentage == 300
binaryPercentage == 25
staticOpacityMin == 400
staticOpacityMax == 700
twinkleOpacityMin == 400
twinkleOpacityMax == 1000

\* Sizes and separations, in pixels; delays and durations, in seconds.
minSize == 1
maxSize == 3
binarySeparationMin == 2
binarySeparationMax == 8
animationDelayMax == 6
animationDurationMin == 4
animationDurationMax == 10

\* CONFIG.stars.spectralClasses: colour and percentage, in hundredths.
spectralClasses ==
    << [type |-> "O-B", color |-> "rgba(155, 176, 255,", percentage |-> 5],
       [type |-> "A",   color |-> "rgba(202, 215, 255,", percentage |-> 15],
       [type |-> "F-G", color |-> "rgba(248, 247, 255,", percentage |-> 30],
       [type |-> "K",   color |-> "rgba(255, 210, 161,", percentage |-> 30],
       [type |-> "M",   color |-> "rgba(255, 204, 111,", percentage |-> 20] >>

\* CONFIG.planets: size in tenths of a pixel, opacity in hundredths.
CONFIG_planets ==
    << [name |-> "Venus",   color |-> "rgba(255, 250, 235,", size |-> 45,
        opacity |-> 95],
       [name |-> "Jupiter", color |-> "rgba(255, 244, 229,", size |-> 42,
        opacity |-> 90],
       [name |-> "Mars",    color |-> "rgba(255, 180, 140,", size |-> 35,
        opacity |-> 85],
       [name |-> "Saturn",  color |-> "rgba(255, 245, 220,", size |-> 38,
        opacity |-> 88],
       [name |-> "Mercury", color |-> "rgba(230, 235, 255,", size |-> 30,
        opacity |-> 80] >>

\* The angles and distance tiers of the motion-curve catalog (meteors.js).
METEOR_ANGLES == <<130, 135, 140, 145, 150, 155, 160, 165>>
DISTANCE_TIERS == {"short", "med", "long"}
DistanceTierAt == <<"short", "med", "long">>

\* Values of heroDiagonal the layout can produce: 0 for a collapsed hero.
Diagonals == {0, 1000}

BurstSizes == 1..MaxBurst

VARIABLES
    \* meteors.js
    meteorsContainer,      \* TRUE iff the element reference is non-null
    heroElement,           \* TRUE iff the element reference is non-null
    heroDiagonal,
    keyframes,             \* diagonal the installed <style> was built from, 0: none
    isShowerActive,
    isPageVisible,
    timers,                \* the browser's pending setTimeout callbacks (a bag)
    firedMeteorTimeouts,   \* activeMeteorTimeouts holds IDs of fired timers
    firedShowerTimeouts,   \* activeShowerTimeouts holds IDs of fired timers
    meteors,               \* .meteor children of the container
    \* stars.js
    starCanvas,
    starCtx,
    starPageVisible,       \* the star module's isPageVisible
    animationFrameId,      \* 0 is null
    frames,                \* the browser's pending requestAnimationFrame callbacks
    stars,                 \* the Star list (a bag of star records)
    planets,               \* the Planet list (a sequence of planet records)
    \* main.js and the document
    docHidden,             \* document.hidden
    handlersInstalled,     \* resize and visibilitychange listeners registered
    \* observation
    lastOp,                \* the handler that ran last and its branch
    lastDraw,              \* what the last handler did to the canvas
    canvasCalls,           \* the calls a frame drawn to its end made, in order
    lastCall,              \* the direct call of an exported function made last
    lastMeteor             \* the meteor the step taken last appended, if any

vars == <<meteorsContainer, heroElement, heroDiagonal, keyframes,
          isShowerActive, isPageVisible, timers, firedMeteorTimeouts,
          firedShowerTimeouts, meteors, starCanvas, starCtx,
          starPageVisible, animationFrameId, frames, stars, planets,
          docHidden, handlersInstalled, lastOp, lastDraw, canvasCalls,
          lastCall, lastMeteor>>

meteorVars == <<meteorsContainer, heroElement, heroDiagonal, keyframes,
                isShowerActive, isPageVisible, timers, firedMeteorTimeouts,
                firedShowerTimeouts, meteors>>

starVars == <<starCanvas, starCtx, starPageVisible, animationFrameId, frames>>

sceneVars == <<stars, planets>>

\* ------------------------------------------------------------------------
\* The browser's timer queue and the two ID lists of meteors.js
\*
\* A pending timer is a record: kind names its callback, meteor, burst and
\* angle are what the closure captured, delay is kept for the timers of one burst (all
\* armed by one call of triggerMeteorShower; 0 elsewhere), and list names the
\* array its ID was pushed to: "activeMeteorTimeouts", "activeShowerTimeouts"
\* or "none" when the ID was dropped.  The content of an array is therefore
\* the pending timers that name it plus the IDs of timers that have fired,
\* which the code never removes; of the latter the model keeps only whether
\* there are any (firedMeteorTimeouts, firedShowerTimeouts).
\* ------------------------------------------------------------------------

\* Smallest positive integer not in S.
NewId(S) == CHOOSE i \in 1..(Cardinality(S) + 1) :
                i \notin S /\ \A j \in 1..(i - 1) : j \in S

NoBaseAngle == -1

\* id = setTimeout(callback, delay), then list.push(id) unless list is
\* "none", for a callback whose closure holds showerAngle.
SetShowerTimeout(ts, kind, list, meteor, burst, delay, showerAngle) ==
    ts (+) SetToBag({[kind |-> kind, list |-> list, meteor |-> meteor,
                      burst |-> burst, delay |-> delay,
                      angle |-> showerAngle]})

\* id = setTimeout(callback, delay), then list.push(id) unless list is "none".
SetTimeout(ts, kind, list, meteor, burst, delay) ==
    SetShowerTimeout(ts, kind, list, meteor, burst, delay, NoBaseAngle)

\* list.forEach(clearTimeout) for each of the arrays named in lists.
ClearTimeouts(ts, lists) ==
    [t \in {u \in BagToSet(ts) : u.list \notin lists} |-> ts[t]]

\* Timers armed by one call fire in the order of their delays: a timer of a
\* burst cannot fire while a timer of the same burst with a smaller delay is
\* pending.  Timers armed by different calls fire in any order.
CanFire(t) ==
    /\ BagIn(t, timers)
    /\ \A u \in BagToSet(timers) :
           (u.burst = t.burst /\ t.burst # 0) => u.delay >= t.delay

\* Pending timers of one callback, with multiplicity.
Pending(k) == BagCardinality([t \in {u \in BagToSet(timers) : u.kind = k}
                                 |-> timers[t]])

\* An array is empty: no pending timer's ID and no fired timer's ID in it.
ListEmpty(ts, fired, list) ==
    ~fired /\ \A t \in BagToSet(ts) : t.list # list

\* ------------------------------------------------------------------------
\* meteors.js: the scheduler.  The operators below work on a record of the
\* module's mutable scheduling state, so that a handler that calls several
\* functions is the composition of their operators.
\* ------------------------------------------------------------------------

\* No meteor.
NoMeteor == [id |-> 0]

Sched == [timers |-> timers, meteors |-> meteors,
          firedMeteorTimeouts |-> firedMeteorTimeouts,
          firedShowerTimeouts |-> firedShowerTimeouts,
          isShowerActive |-> isShowerActive, created |-> NoMeteor]

\* The scheduling state when the callback of timer t starts to run: the
\* browser has taken t off its queue, its ID stays in the array that has it.
AfterFiring(t) ==
    [Sched EXCEPT !.timers = timers (-) SetToBag({t}),
                  !.firedMeteorTimeouts =
                      @ \/ t.list = "activeMeteorTimeouts",
                  !.firedShowerTimeouts =
                      @ \/ t.list = "activeShowerTimeouts"]

\* createMeteor returns early without a container or with a zero diagonal.
CanCreateMeteor == meteorsContainer /\ heroDiagonal # 0

\* |a|
Abs(a) == IF a < 0 THEN -a ELSE a

\* calculateMeteorStartPosition with the two ranges of y exchanged.
calculateMeteorStartPositionSwapped(rx, ry) ==
    LET startX == 1000 * startXMax - rx * (startXMax - startXMin)
        startY ==
            IF startX >= 100000
            THEN 1000 * startYMinWhenXInBounds
                 + ry * (startYMax - startYMinWhenXInBounds)
            ELSE 1000 * startYMinWhenXOutOfBounds
                 + ry * (startYMax - startYMinWhenXOutOfBounds)
    IN  [x |-> startX, y |-> startY]

\* calculateMeteorStartPosition(); rx and ry are the values Math.random()
\* returns, in thousandths, the result is in thousandths of a percent.
calculateMeteorStartPosition(rx, ry) ==
    LET startX == 1000 * startXMax - rx * (startXMax - startXMin)
        startY ==
            IF startX < 100000
            THEN 1000 * startYMinWhenXInBounds
                 + ry * (startYMax - startYMinWhenXInBounds)
            ELSE 1000 * startYMinWhenXOutOfBounds
                 + ry * (startYMax - startYMinWhenXOutOfBounds)
    IN  [x |-> startX, y |-> startY]

\* The baseAngle argument null.

\* METEOR_ANGLES.reduce of selectMeteorAngle with <= for <.
RECURSIVE ClosestAngleLast(_, _, _)
ClosestAngleLast(prev, i, baseAngle) ==
    IF i > Len(METEOR_ANGLES) THEN prev
    ELSE LET curr == METEOR_ANGLES[i]
         IN  ClosestAngleLast(IF Abs(10 * curr - baseAngle)
                                     <= Abs(10 * prev - baseAngle)
                              THEN curr ELSE prev,
                              i + 1, baseAngle)

\* METEOR_ANGLES.reduce((prev, curr) => ...) of selectMeteorAngle from index
\* i on (1-based); baseAngle is in tenths of a degree.  The callback gets the
\* accumulator as a value: p is bound to it once.
RECURSIVE ClosestAngle(_, _, _)
ClosestAngle(prev, i, baseAngle) ==
    IF i > Len(METEOR_ANGLES) THEN prev
    ELSE LET curr == METEOR_ANGLES[i]
             Closer(p) == IF Abs(10 * curr - baseAngle)
                                 < Abs(10 * p - baseAngle)
                          THEN curr ELSE p
         IN  ClosestAngle(CHOOSE a \in {Closer(p) : p \in {prev}} : TRUE,
                          i + 1, baseAngle)

\* selectMeteorAngle(baseAngle); r is the value Math.random() returns in the
\* branch without a base angle, in thousandths.
selectMeteorAngle(baseAngle, r) ==
    IF baseAngle # NoBaseAngle
    THEN ClosestAngle(METEOR_ANGLES[1], 2, baseAngle)
    ELSE METEOR_ANGLES[(r * Len(METEOR_ANGLES)) \div 1000 + 1]

\* selectMeteorAnimation(angle); r is the value Math.random() returns, in
\* thousandths.  The name meteor-<angle>-<tier> is a tuple.
selectMeteorAnimation(angle, r) ==
    <<"meteor", angle, DistanceTierAt[(r * Len(DistanceTierAt)) \div 1000 + 1]>>

\* What createMeteor does past its guard: appends a meteor element with its
\* animation and arms its cleanup timer, whose ID is pushed to
\* activeMeteorTimeouts.  r holds the values Math.random() returns for the
\* angle and the tier.
AppendMeteor(s, baseAngle, r) ==
    LET m == NewId(s.meteors \cup {t.meteor : t \in BagToSet(s.timers)})
        angle == selectMeteorAngle(baseAngle, r.angle)
    IN  [s EXCEPT !.meteors = @ \cup {m},
                  !.timers = SetTimeout(@, "meteorCleanup",
                                        "activeMeteorTimeouts", m, 0, 0),
                  !.created = [id |-> m, baseAngle |-> baseAngle,
                               angle |-> angle,
                               animationName |->
                                   selectMeteorAnimation(angle, r.tier)]]

\* createMeteor without its guard.
createMeteorUnguarded(s, baseAngle, r) == AppendMeteor(s, baseAngle, r)

\* createMeteor(baseAngle)
createMeteor(s, baseAngle, r) ==
    IF ~CanCreateMeteor THEN s ELSE AppendMeteor(s, baseAngle, r)

\* The cleanup callback with its visibility test inverted.
meteorCleanupInverted(s, m, visible) ==
    IF ~visible /\ m \in s.meteors THEN [s EXCEPT !.meteors = @ \ {m}] ELSE s

\* The cleanup callback of createMeteor: removes its meteor only when the
\* page is visible and the element is still attached.
meteorCleanup(s, m, visible) ==
    IF visible /\ m \in s.meteors THEN [s EXCEPT !.meteors = @ \ {m}] ELSE s

\* createSingleMeteor without its isPageVisible guard.
createSingleMeteorUnguarded(s, visible, r) ==
    [createMeteor(s, NoBaseAngle, r) EXCEPT
        !.timers = SetTimeout(@, "single", "activeMeteorTimeouts", 0, 0, 0)]

\* createSingleMeteor that forgets to re-arm itself.
createSingleMeteorOnce(s, visible, r) ==
    IF ~visible THEN s ELSE createMeteor(s, NoBaseAngle, r)

\* createSingleMeteor: one creation attempt, then re-arms itself.
createSingleMeteor(s, visible, r) ==
    IF ~visible THEN s
    ELSE [createMeteor(s, NoBaseAngle, r) EXCEPT
             !.timers = SetTimeout(@, "single", "activeMeteorTimeouts",
                                   0, 0, 0)]

\* Delay of the i-th staggered meteor of a burst: i * (showerIntervalMin +
\* Math.random() * (showerIntervalMax - showerIntervalMin)), the two extreme
\* whole milliseconds.
StaggerDelays(i) ==
    IF i = 0 THEN {0} ELSE {i * showerIntervalMin, i * showerIntervalMax - 1}

\* The delay of the cleanup timer without its per-meteor part.
ShowerCleanupDelayBaseOnly(n) == showerCleanupDelayBase

\* Delay of the cleanup timer of a burst of n meteors.
ShowerCleanupDelay(n) ==
    n * showerCleanupDelayPerMeteor + showerCleanupDelayBase

\* The for loop of triggerMeteorShower from index i on: one tracked timer
\* per meteor, d[i] its delay; every callback holds showerAngle.
RECURSIVE ArmShowerMeteors(_, _, _, _, _, _)
ArmShowerMeteors(ts, i, n, b, d, showerAngle) ==
    IF i >= n THEN ts
    ELSE ArmShowerMeteors(SetShowerTimeout(ts, "showerMeteor",
                                           "activeShowerTimeouts", 0, b, d[i],
                                           showerAngle),
                          i + 1, n, b, d, showerAngle)

\* The shower angle drawn from a range that ends ten degrees later.
ShowerAngleWide(r) ==
    10 * angleMin + (r * (angleMax + 10 - angleMin)) \div 100

\* angleMin + Math.random() * (angleMax - angleMin), in tenths of a degree;
\* r is the value Math.random() returns, in thousandths.
ShowerAngle(r) == 10 * angleMin + (r * (angleMax - angleMin)) \div 100

\* The guard of triggerMeteorShower without the isShowerActive test.
ShowerBlockedOnlyHidden(active, visible) == ~visible

\* The guard of triggerMeteorShower.
ShowerBlocked(active, visible) == active \/ ~visible

\* triggerMeteorShower: n is numMeteors, d the delays drawn in the loop, r
\* the value Math.random() returns for the shower angle.
triggerMeteorShower(s, visible, n, d, r) ==
    IF ShowerBlocked(s.isShowerActive, visible) THEN s
    ELSE LET b == NewId({t.burst : t \in BagToSet(s.timers)})
         IN  [s EXCEPT !.isShowerActive = TRUE,
                       !.timers = SetTimeout(ArmShowerMeteors(@, 0, n, b, d,
                                                              ShowerAngle(r)),
                                             "showerCleanup",
                                             "activeShowerTimeouts", 0, b,
                                             ShowerCleanupDelay(n))]

\* scheduleNextShower
scheduleNextShower(s, visible) ==
    IF ~visible THEN s
    ELSE [s EXCEPT !.timers = SetTimeout(@, "trigger",
                                         "activeShowerTimeouts", 0, 0, 0)]

\* The cleanup callback without its scheduleNextShower call.
showerCleanupNoNext(s, visible) == [s EXCEPT !.isShowerActive = FALSE]

\* The cleanup callback of triggerMeteorShower.
showerCleanup(s, visible) ==
    scheduleNextShower([s EXCEPT !.isShowerActive = FALSE], visible)

\* The staggered callback of triggerMeteorShower.
showerMeteor(s, visible, showerAngle, r) ==
    IF visible THEN createMeteor(s, showerAngle, r) ELSE s

\* The for loop of startMeteors: the returned IDs are dropped.
RECURSIVE ArmStreams(_, _)
ArmStreams(ts, n) ==
    IF n = 0 THEN ts
    ELSE ArmStreams(SetTimeout(ts, "single", "none", 0, 0, 0), n - 1)

\* startMeteors: singleMeteorStreamCount stream timers and the first shower
\* trigger; none of the IDs is kept.
startMeteors(s) ==
    [s EXCEPT !.timers = SetTimeout(ArmStreams(@, singleMeteorStreamCount),
                                    "trigger", "none", 0, 0, 0)]

\* stopMeteors that leaves the meteor elements in the container.
stopMeteorsKeepsMeteors(s) ==
    [s EXCEPT !.timers = ClearTimeouts(@, {"activeMeteorTimeouts",
                                           "activeShowerTimeouts"}),
              !.firedMeteorTimeouts = FALSE,
              !.firedShowerTimeouts = FALSE,
              !.isShowerActive = FALSE]

\* stopMeteors without the reset of isShowerActive.
stopMeteorsKeepsFlag(s) ==
    [s EXCEPT !.timers = ClearTimeouts(@, {"activeMeteorTimeouts",
                                           "activeShowerTimeouts"}),
              !.firedMeteorTimeouts = FALSE,
              !.firedShowerTimeouts = FALSE,
              !.meteors = IF meteorsContainer THEN {} ELSE @]

\* stopMeteors
stopMeteors(s) ==
    [s EXCEPT !.timers = ClearTimeouts(@, {"activeMeteorTimeouts",
                                           "activeShowerTimeouts"}),
              !.firedMeteorTimeouts = FALSE,
              !.firedShowerTimeouts = FALSE,
              !.isShowerActive = FALSE,
              !.meteors = IF meteorsContainer THEN {} ELSE @]

\* restartMeteors
restartMeteors(s) ==
    startMeteors(stopMeteors([s EXCEPT !.isShowerActive = FALSE]))

\* generateMeteorKeyframes: replaces the style element unless heroDiagonal
\* is zero, in which case it returns before touching the document.
generateMeteorKeyframes(installed, diagonal) ==
    IF diagonal = 0 THEN installed ELSE diagonal

\* distances[tier] of generateMeteorKeyframes for diagonal d.
TierDistance(d, tier) ==
    CASE tier = "short" -> d - 25 [] tier = "med" -> d [] tier = "long" -> d + 25

\* 1000 * Math.cos(radians) and 1000 * Math.sin(radians) at the preset
\* angles, rounded.
KeyframeCos(angle) ==
    CASE angle = 130 -> -643 [] angle = 135 -> -707 [] angle = 140 -> -766
      [] angle = 145 -> -819 [] angle = 150 -> -866 [] angle = 155 -> -906
      [] angle = 160 -> -940 [] angle = 165 -> -966
KeyframeSin(angle) ==
    CASE angle = 130 -> 766 [] angle = 135 -> 707 [] angle = 140 -> 643
      [] angle = 145 -> 574 [] angle = 150 -> 500 [] angle = 155 -> 423
      [] angle = 160 -> 342 [] angle = 165 -> 259

\* The @keyframes rules generateMeteorKeyframes builds from diagonal d: one
\* per angle and tier, named meteor-<angle>-<tier>, whose last step
\* translates by (endX, endY), in thousandths of a pixel.
Catalog(d) ==
    {[name |-> <<"meteor", METEOR_ANGLES[a], tier>>,
      angle |-> METEOR_ANGLES[a],
      distance |-> TierDistance(d, tier),
      endX |-> KeyframeCos(METEOR_ANGLES[a]) * TierDistance(d, tier),
      endY |-> KeyframeSin(METEOR_ANGLES[a]) * TierDistance(d, tier)] :
        a \in DOMAIN METEOR_ANGLES, tier \in DISTANCE_TIERS}

\* The rules of the style element #meteor-keyframes in the document.
InstalledCatalog == IF keyframes = 0 THEN {} ELSE Catalog(keyframes)

\* Writes a scheduling record back to the variables.
Commit(s) ==
    \E after \in {s} :
        /\ timers' = after.timers
        /\ meteors' = after.meteors
        /\ firedMeteorTimeouts' = after.firedMeteorTimeouts
        /\ firedShowerTimeouts' = after.firedShowerTimeouts
        /\ isShowerActive' = after.isShowerActive
        /\ lastMeteor' = after.created

\* Pending timers whose ID the program does not hold.
Untracked == BagCardinality([t \in {u \in BagToSet(timers) : u.list = "none"}
                                |-> timers[t]])

\* ------------------------------------------------------------------------
\* stars.js: the renderer
\* ------------------------------------------------------------------------

\* The renderer's state and what it reads: scene is the two lists at the
\* time of the call, draw and calls what the call did to the canvas.
Render == [animationFrameId |-> animationFrameId, frames |-> frames,
           draw |-> "none", calls |-> <<>>,
           scene |-> [stars |-> stars, planets |-> planets]]

\* stars.forEach of renderStars: one entry per run of the list, in the order
\* of the list; an entry stands for `times` consecutive iterations of the
\* generating loop, each of which pushed `items` in that order, and for one
\* arc and fill per item.
RECURSIVE StarCalls(_)
StarCalls(b) ==
    IF BagToSet(b) = {} THEN <<>>
    ELSE LET first == CHOOSE f \in {s.first : s \in BagToSet(b)} :
                          \A s \in BagToSet(b) : f <= s.first
             run == {s \in BagToSet(b) : s.first = first}
             items == [k \in 1..Cardinality(run) |->
                          CHOOSE s \in run : s.slot = k]
         IN  <<[op |-> "arc", list |-> "stars", first |-> first,
                items |-> items, times |-> b[items[1]]]>>
             \o StarCalls([s \in BagToSet(b) \ run |-> b[s]])

\* planets.forEach of renderStars: one arc and fill per planet.
PlanetCalls(ps) ==
    [i \in DOMAIN ps |-> [op |-> "arc", list |-> "planets", index |-> i,
                          items |-> <<ps[i]>>, times |-> 1]]

\* The canvas and window calls of the try block of renderStars.
FrameCalls(sc) ==
    <<[op |-> "clearRect"]>> \o StarCalls(sc.stars) \o PlanetCalls(sc.planets)
        \o <<[op |-> "requestAnimationFrame"]>>

FrameIds(fs) == {f.id : f \in fs}

\* requestAnimationFrame: a handle that is neither pending nor the one the
\* module still holds.
NewFrameId(r) == NewId(FrameIds(r.frames) \cup {r.animationFrameId})

\* animationFrameId = null without the cancelAnimationFrame call.
ForgetPendingFrame(r) == [r EXCEPT !.animationFrameId = 0]

\* cancelAnimationFrame(animationFrameId); animationFrameId = null, guarded
\* by if (animationFrameId).
CancelPendingFrame(r) ==
    IF r.animationFrameId # 0
    THEN [r EXCEPT !.frames = {f \in @ : f.id # r.animationFrameId},
                   !.animationFrameId = 0]
    ELSE r

\* renderStars that requests the next frame although a canvas call threw.
renderStarsRetries(r, ctx, canvas, visible, throws) ==
    IF ~ctx \/ ~canvas \/ ~visible THEN CancelPendingFrame(r)
    ELSE LET id == NewFrameId(r)
         IN  [r EXCEPT !.draw = IF throws THEN "error" ELSE "drawn",
                       !.calls = IF throws THEN <<>>
                                 ELSE FrameCalls(r.scene),
                       !.frames = @ \cup {[id |-> id, cb |-> "renderStars"]},
                       !.animationFrameId = id]

\* renderStars that tests only isPageVisible before it draws.
renderStarsNoSurfaceTest(r, ctx, canvas, visible, throws) ==
    IF ~visible THEN CancelPendingFrame(r)
    ELSE IF throws THEN [CancelPendingFrame(r) EXCEPT !.draw = "error"]
    ELSE LET id == NewFrameId(r)
         IN  [r EXCEPT !.draw = "drawn",
                       !.calls = FrameCalls(r.scene),
                       !.frames = @ \cup {[id |-> id, cb |-> "renderStars"]},
                       !.animationFrameId = id]

\* renderStars that draws the planets before the stars.
renderStarsPlanetsFirst(r, ctx, canvas, visible, throws) ==
    IF ~ctx \/ ~canvas \/ ~visible THEN CancelPendingFrame(r)
    ELSE IF throws THEN [CancelPendingFrame(r) EXCEPT !.draw = "error"]
    ELSE LET id == NewFrameId(r)
         IN  [r EXCEPT !.draw = "drawn",
                       !.calls = <<[op |-> "clearRect"]>>
                                     \o PlanetCalls(r.scene.planets)
                                     \o StarCalls(r.scene.stars)
                                     \o <<[op |-> "requestAnimationFrame"]>>,
                       !.frames = @ \cup {[id |-> id, cb |-> "renderStars"]},
                       !.animationFrameId = id]

\* renderStars: ctx, canvas and visible are starCtx, starCanvas and
\* isPageVisible at the call; throws tells whether a canvas call throws.
renderStars(r, ctx, canvas, visible, throws) ==
    IF ~ctx \/ ~canvas \/ ~visible THEN CancelPendingFrame(r)
    ELSE IF throws THEN [CancelPendingFrame(r) EXCEPT !.draw = "error"]
    ELSE LET id == NewFrameId(r)
         IN  [r EXCEPT !.draw = "drawn",
                       !.calls = FrameCalls(r.scene),
                       !.frames = @ \cup {[id |-> id, cb |-> "renderStars"]},
                       !.animationFrameId = id]

\* setPageVisible that only restarts the loop and never cancels a frame.
setPageVisibleNoCancel(r, ctx, canvas, visible, throws) ==
    IF visible /\ r.animationFrameId = 0
    THEN renderStars(r, ctx, canvas, visible, throws)
    ELSE r

\* setPageVisible(visible), after isPageVisible = visible.
setPageVisible(r, ctx, canvas, visible, throws) ==
    IF ~visible /\ r.animationFrameId # 0 THEN CancelPendingFrame(r)
    ELSE IF visible /\ r.animationFrameId = 0
         THEN renderStars(r, ctx, canvas, visible, throws)
         ELSE r

CommitRender(r) ==
    /\ animationFrameId' = r.animationFrameId
    /\ frames' = r.frames
    /\ lastDraw' = r.draw
    /\ canvasCalls' = r.calls

\* The two variables of the render loop's frame request.
CommitFrames(r) ==
    /\ animationFrameId' = r.animationFrameId
    /\ frames' = r.frames

\* generateStars that also requests a frame for renderStars.
generateStarsRequestsFrame(r) ==
    [r EXCEPT !.animationFrameId = NewFrameId(r),
              !.frames = @ \cup {[id |-> NewFrameId(r), cb |-> "renderStars"]}]

\* What generateStars does to the render loop: nothing.  It assigns stars and
\* planets and calls neither requestAnimationFrame nor cancelAnimationFrame.
generateStarsFrames(r) == r

\* Pending callbacks of the render loop.
RenderFrames == {f \in frames : f.cb = "renderStars"}


\* ------------------------------------------------------------------------
\* stars.js: the scene population
\*
\* Lengths are in thousandths of a pixel, Math.random() values in thousandths
\* (hundredths for the spectral draw), opacities in thousandths, times in
\* milliseconds.  Two fields of a star or planet record are not fields of the
\* JavaScript object: role tells a primary star from a binary companion and
\* pass tells whether the record was pushed by the generateStars call made
\* last ("current") or by an earlier one ("earlier").
\* ------------------------------------------------------------------------

\* getStarCount()
getStarCount(innerWidth) ==
    IF innerWidth < mobileBreakpoint THEN countMobile ELSE countDesktop

\* The for loop of getSpectralColor with rand < cumulative as its test.
RECURSIVE SpectralLoopStrict(_, _, _, _)
SpectralLoopStrict(classes, rand, i, cumulative) ==
    IF i > Len(classes) THEN classes[3].color
    ELSE LET c == cumulative + classes[i].percentage
         IN  IF rand < c THEN classes[i].color
             ELSE SpectralLoopStrict(classes, rand, i + 1, c)

\* The for loop of getSpectralColor over CONFIG.stars.spectralClasses =
\* classes, from class i on; after the loop the function returns the colour
\* of spectralClasses[2] (the third class).
RECURSIVE SpectralLoop(_, _, _, _)
SpectralLoop(classes, rand, i, cumulative) ==
    IF i > Len(classes) THEN classes[3].color
    ELSE LET c == cumulative + classes[i].percentage
         IN  IF rand <= c THEN classes[i].color
             ELSE SpectralLoop(classes, rand, i + 1, c)

\* getSpectralColor(), rand the value Math.random() returned, in hundredths.
getSpectralColor(rand) == SpectralLoop(spectralClasses, rand, 1, 0)

SpectralColors == {spectralClasses[i].color : i \in DOMAIN spectralClasses}

\* Math.pow(r, 1.5) at the values of r the model draws.
Pow15(r) == CASE r = 0 -> 0 [] r = 250 -> 125 [] r = 500 -> 354
              [] r = 999 -> 998

\* Math.cos and Math.sin at the directions the model draws, in degrees.
CosDeg(a) == CASE a = 0 -> 1 [] a = 90 -> 0 [] a = 180 -> -1 [] a = 270 -> 0
SinDeg(a) == CASE a = 0 -> 0 [] a = 90 -> 1 [] a = 180 -> 0 [] a = 270 -> -1

\* The object pushed for a twinkling star, with a fixed opacity as well.
TwinklingStarWithOpacity(x, y, size, color, rDelay, rDuration, role) ==
    [x |-> x, y |-> y, size |-> size, color |-> color, isStatic |-> FALSE,
     opacity |-> staticOpacityMin,
     twinkleDelay |-> rDelay * animationDelayMax,
     twinkleDuration |-> 1000 * animationDurationMin
                         + rDuration * (animationDurationMax
                                        - animationDurationMin),
     role |-> role, slot |-> 0, first |-> 0, pass |-> "current"]

\* The object pushed for a static star.
StaticStar(x, y, size, color, rOpacity, role) ==
    [x |-> x, y |-> y, size |-> size, color |-> color, isStatic |-> TRUE,
     opacity |-> staticOpacityMin
                 + (rOpacity * (staticOpacityMax - staticOpacityMin)) \div 1000,
     role |-> role, slot |-> 0, first |-> 0, pass |-> "current"]

\* The object pushed for a twinkling star.
TwinklingStar(x, y, size, color, rDelay, rDuration, role) ==
    [x |-> x, y |-> y, size |-> size, color |-> color, isStatic |-> FALSE,
     twinkleDelay |-> rDelay * animationDelayMax,
     twinkleDuration |-> 1000 * animationDurationMin
                         + rDuration * (animationDurationMax
                                        - animationDurationMin),
     role |-> role, slot |-> 0, first |-> 0, pass |-> "current"]

\* A companion as large as its primary.
CompanionSizeUnscaled(size, r) == size

\* const companionSize = size * (0.6 + Math.random() * 0.3)
CompanionSize(size, r) == (size * (600 + (r * 300) \div 1000)) \div 1000

\* One iteration of the loop of generateStars: g holds the values that
\* Math.random() returns in it, binary tells whether the companion draw
\* succeeded.  The result is the bag of the objects the iteration pushes;
\* slot is the position of an object among the pushes of its iteration.
StarIteration(g, binary, canvasWidth, canvasHeight) ==
    LET x == g.rx * canvasWidth
        y == Pow15(g.ry) * canvasHeight
        size == 1000 * minSize + g.rSize * (maxSize - minSize)
        color == getSpectralColor(g.rColor)
        isStatic == g.rStatic < staticPercentage
        primary ==
            IF isStatic
            THEN StaticStar(x, y, size, color, g.rOpacity, "primary")
            ELSE TwinklingStar(x, y, size, color, g.rDelay, g.rDuration,
                               "primary")
        separation == 1000 * binarySeparationMin
                      + g.rSep * (binarySeparationMax - binarySeparationMin)
        companionX == x + CosDeg(g.angle) * separation
        companionY == y + SinDeg(g.angle) * separation
        companionSize == CompanionSize(size, g.rCompSize)
        companion ==
            IF isStatic
            THEN StaticStar(companionX, companionY, companionSize, color,
                            g.rCompOpacity, "companion")
            ELSE TwinklingStar(companionX, companionY, companionSize, color,
                               g.rCompDelay, g.rCompDuration, "companion")
        pushes == IF binary THEN <<primary, companion>> ELSE <<primary>>
    IN  SetToBag({[pushes[k] EXCEPT !.slot = k] : k \in DOMAIN pushes})

\* The objects of bag b as pushed by the iterations from number `done` on.
PushedFrom(b, done) ==
    SetToBag({[s EXCEPT !.first = done] : s \in BagToSet(b)})

\* n copies of every element of bag b.
BagTimes(b, n) == [s \in DOMAIN b |-> b[s] * n]

\* The for loop of generateStars from iteration `done` on.  runs supplies the
\* draws: runs[k].n consecutive iterations draw runs[k].g and runs[k].binary.
RECURSIVE StarLoop(_, _, _, _, _, _)
StarLoop(list, done, numStars, runs, canvasWidth, canvasHeight) ==
    IF done >= numStars \/ runs = <<>> THEN list
    ELSE LET r == Head(runs)
             n == IF r.n < numStars - done THEN r.n ELSE numStars - done
         IN  StarLoop(list (+) BagTimes(PushedFrom(StarIteration(r.g,
                                                                 r.binary,
                                                                 canvasWidth,
                                                                 canvasHeight),
                                                   done), n),
                      done + n, numStars, Tail(runs), canvasWidth,
                      canvasHeight)

\* CONFIG.planets.forEach with a random offset of up to 35% of the canvas.
PlanetLoopWideOffset(p, canvasWidth, canvasHeight) ==
    [index \in DOMAIN CONFIG_planets |->
        LET baseX == ((1000 * canvasWidth) \div (Len(CONFIG_planets) + 1))
                         * index
            baseY == canvasHeight * (200 + (p[index].ry * 400) \div 1000)
            offsetX == ((p[index].rox - 500) * canvasWidth * 350) \div 1000
            offsetY == ((p[index].roy - 500) * canvasHeight * 350) \div 1000
        IN  [x |-> baseX + offsetX, y |-> baseY + offsetY,
             size |-> CONFIG_planets[index].size,
             color |-> CONFIG_planets[index].color,
             opacity |-> CONFIG_planets[index].opacity,
             name |-> CONFIG_planets[index].name,
             pass |-> "current"]]

\* CONFIG.planets.forEach of generateStars; p[index] holds the values
\* Math.random() returns for the planet at that index (1-based).
PlanetLoop(p, canvasWidth, canvasHeight) ==
    [index \in DOMAIN CONFIG_planets |->
        LET baseX == ((1000 * canvasWidth) \div (Len(CONFIG_planets) + 1))
                         * index
            baseY == canvasHeight * (200 + (p[index].ry * 400) \div 1000)
            offsetX == ((p[index].rox - 500) * canvasWidth * 150) \div 1000
            offsetY == ((p[index].roy - 500) * canvasHeight * 150) \div 1000
        IN  [x |-> baseX + offsetX, y |-> baseY + offsetY,
             size |-> CONFIG_planets[index].size,
             color |-> CONFIG_planets[index].color,
             opacity |-> CONFIG_planets[index].opacity,
             name |-> CONFIG_planets[index].name,
             pass |-> "current"]]

Scene == [stars |-> stars, planets |-> planets]

NoScene == [stars |-> EmptyBag, planets |-> <<>>]

\* What is in the two lists when a generateStars call starts belongs to an
\* earlier pass from then on.
Earlier(sc) ==
    [stars |-> LET T == {[s EXCEPT !.pass = "earlier"] :
                            s \in BagToSet(sc.stars)}
               IN  [t \in T |-> CopiesIn(t, sc.stars)
                                + CopiesIn([t EXCEPT !.pass = "current"],
                                           sc.stars)],
     planets |-> [i \in DOMAIN sc.planets |->
                     [sc.planets[i] EXCEPT !.pass = "earlier"]]]

\* The test generateStars makes of its arguments (an undefined argument is
\* modelled by 0, which !canvasWidth treats alike).
InvalidDimensions(canvasWidth, canvasHeight) ==
    \/ canvasWidth = 0 \/ canvasHeight = 0
    \/ canvasWidth <= 0 \/ canvasHeight <= 0

\* generateStars that pushes onto the list it finds.
generateStarsAppends(sc, canvasWidth, canvasHeight, innerWidth, runs, p) ==
    IF InvalidDimensions(canvasWidth, canvasHeight)
    THEN [Earlier(sc) EXCEPT !.stars = EmptyBag]
    ELSE [stars |-> StarLoop(Earlier(sc).stars, 0, getStarCount(innerWidth),
                             runs, canvasWidth, canvasHeight),
          planets |-> PlanetLoop(p, canvasWidth, canvasHeight)]

\* generateStars(canvasWidth, canvasHeight); innerWidth is window.innerWidth
\* at the call.
generateStars(sc, canvasWidth, canvasHeight, innerWidth, runs, p) ==
    IF InvalidDimensions(canvasWidth, canvasHeight)
    THEN [Earlier(sc) EXCEPT !.stars = EmptyBag]
    ELSE [stars |-> StarLoop(EmptyBag, 0, getStarCount(innerWidth), runs,
                             canvasWidth, canvasHeight),
          planets |-> PlanetLoop(p, canvasWidth, canvasHeight)]

CommitScene(sc) ==
    /\ stars' = sc.stars
    /\ planets' = sc.planets

\* Ends of the range of Math.random(), in thousandths.
RandomEnds == {0, 999}

\* The values Math.random() returns in one iteration of the loop of
\* generateStars that the model explores: both ends of the range for the
\* position and the static test, the four axis directions for the companion,
\* one value for the rest.
Draws ==
    [rx : RandomEnds, ry : RandomEnds, rSize : {500}, rColor : {0},
     rStatic : RandomEnds, rOpacity : {500}, rDelay : {500},
     rDuration : {0}, angle : {0, 90, 180, 270}, rSep : {999},
     rCompSize : {500}, rCompOpacity : {0}, rCompDelay : {0},
     rCompDuration : {999}]

\* Values of the spectral draw, in hundredths: one inside the share of each
\* class.
SpectralDraws == {0, 10, 40, 70, 99}

\* The draw at the other end of the range in every position, spectral and
\* static value, in the opposite direction.
Opposite(g) ==
    [g EXCEPT !.rx = 999 - @, !.ry = 999 - @, !.rColor = 99 - @,
              !.rStatic = 999 - @, !.angle = (@ + 180) % 360]

\* The draws of a whole pass of numStars iterations: no iteration draws a
\* companion (with each of the spectral draws), or only the first one does
\* and the others draw the opposite values, or every iteration does.
Passes(numStars) ==
    UNION {{ <<[g |-> g, binary |-> FALSE, n |-> numStars]>>,
             <<[g |-> g, binary |-> TRUE, n |-> 1],
               [g |-> Opposite(g), binary |-> FALSE, n |-> numStars - 1]>>,
             <<[g |-> g, binary |-> TRUE, n |-> numStars]>> } : g \in Draws}
    \cup {<<[g |-> [g EXCEPT !.rColor = c], binary |-> FALSE,
             n |-> numStars]>> :
            g \in {d \in Draws : d.angle = 0 /\ d.rx = 0 /\ d.ry = 0},
            c \in SpectralDraws}
    \cup {<<[g |-> [g EXCEPT !.rCompSize = c, !.rColor = 70],
             binary |-> TRUE, n |-> numStars]>> :
            g \in {d \in Draws : d.angle = 0 /\ d.rx = 0 /\ d.ry = 0},
            c \in RandomEnds}

\* The one pass the page lifecycle is explored with.
LifecyclePasses(numStars) ==
    {<<[g |-> [rx |-> 999, ry |-> 0, rSize |-> 500, rColor |-> 99,
               rStatic |-> 999, rOpacity |-> 500, rDelay |-> 500,
               rDuration |-> 0, angle |-> 0, rSep |-> 999,
               rCompSize |-> 500, rCompOpacity |-> 0, rCompDelay |-> 0,
               rCompDuration |-> 999],
        binary |-> TRUE, n |-> 1],
       [g |-> [rx |-> 0, ry |-> 999, rSize |-> 500, rColor |-> 0,
               rStatic |-> 0, rOpacity |-> 500, rDelay |-> 500,
               rDuration |-> 0, angle |-> 0, rSep |-> 999,
               rCompSize |-> 500, rCompOpacity |-> 0, rCompDelay |-> 0,
               rCompDuration |-> 999],
        binary |-> FALSE, n |-> numStars - 1]>>}

\* The values Math.random() returns for the planets when every planet sits
\* on its base slot.
CentralPlanetDraw ==
    [index \in DOMAIN CONFIG_planets |-> [ry |-> 0, rox |-> 500, roy |-> 500]]

\* The values Math.random() returns for the planets, per planet: the
\* horizontal offset at the same end of its range for all planets or at
\* opposite ends for neighbours, the two vertical draws at either end.
PlanetDraws ==
    {[index \in DOMAIN CONFIG_planets |->
         [ry |-> v, roy |-> v,
          rox |-> IF alternate /\ index % 2 = 0 THEN 999 - first ELSE first]] :
        v \in RandomEnds, first \in RandomEnds, alternate \in BOOLEAN}
    \cup {CentralPlanetDraw}

LifecyclePlanetDraws == {CentralPlanetDraw}

\* The draws of a whole generateStars call: every pass of stars with the
\* planets on their base slots, and every planet draw with one pass.
PassInputs(numStars) ==
    {[runs |-> runs, p |-> CentralPlanetDraw] : runs \in Passes(numStars)}
    \cup {[runs |-> runs, p |-> p] :
             runs \in LifecyclePasses(numStars), p \in PlanetDraws}

\* The rectangle getBoundingClientRect() reports for #nightSky, in pixels:
\* empty for an element that is not laid out (the element is a square).
Rects == {[width |-> 0, height |-> 0], [width |-> 1000, height |-> 1000]}

\* Arguments a caller can pass to generateStars, in pixels.
ArgExtents == {-1, 0, 1000}

\* window.innerWidth on either side of the breakpoint.
InnerWidths == {mobileBreakpoint - 1, mobileBreakpoint}

\* window.innerWidth the page lifecycle is explored with.
LifecycleInnerWidths == {mobileBreakpoint}

\* ------------------------------------------------------------------------
\* stars.js and utils.js: the twinkle
\* ------------------------------------------------------------------------

\* 1000 * Math.cos(Math.PI * t / 1000), t rounded to an eighth of the range.
CosPi(t) ==
    <<1000, 924, 707, 383, 0, -383, -707, -924, -1000>>[((t + 62) \div 125) + 1]

\* easeInOutSine(t), t and the result in thousandths.
easeInOutSine(t) == (-(CosPi(t) - 1000)) \div 2

\* getTwinkleOpacity that scales the eased position by twinkleOpacityMax.
getTwinkleOpacityFullScale(star, now) ==
    LET elapsed == now - star.twinkleDelay
    IN  IF elapsed < 0
        THEN [elapsed |-> elapsed, cyclePosition |-> 0, easedPosition |-> 0,
              opacity |-> twinkleOpacityMin]
        ELSE LET cyclePosition == ((elapsed % star.twinkleDuration) * 1000)
                                      \div star.twinkleDuration
                 easedPosition == easeInOutSine(cyclePosition)
             IN  [elapsed |-> elapsed, cyclePosition |-> cyclePosition,
                  easedPosition |-> easedPosition,
                  opacity |-> twinkleOpacityMin
                              + (easedPosition * twinkleOpacityMax) \div 1000]

\* getTwinkleOpacity that wraps elapsed at animationDurationMax seconds
\* instead of the star's own twinkleDuration.
getTwinkleOpacityFixedPeriod(star, now) ==
    LET elapsed == now - star.twinkleDelay
        period == 1000 * animationDurationMax
    IN  IF elapsed < 0
        THEN [elapsed |-> elapsed, cyclePosition |-> 0, easedPosition |-> 0,
              opacity |-> twinkleOpacityMin]
        ELSE LET cyclePosition == ((elapsed % period) * 1000) \div period
                 easedPosition == easeInOutSine(cyclePosition)
             IN  [elapsed |-> elapsed, cyclePosition |-> cyclePosition,
                  easedPosition |-> easedPosition,
                  opacity |-> twinkleOpacityMin
                              + (easedPosition * (twinkleOpacityMax
                                                  - twinkleOpacityMin))
                                    \div 1000]

\* getTwinkleOpacity(star, currentTime); now is currentTime - startTime.
getTwinkleOpacity(star, now) ==
    LET elapsed == now - star.twinkleDelay
    IN  IF elapsed < 0
        THEN [elapsed |-> elapsed, cyclePosition |-> 0, easedPosition |-> 0,
              opacity |-> twinkleOpacityMin]
        ELSE LET cyclePosition == ((elapsed % star.twinkleDuration) * 1000)
                                      \div star.twinkleDuration
                 easedPosition == easeInOutSine(cyclePosition)
             IN  [elapsed |-> elapsed, cyclePosition |-> cyclePosition,
                  easedPosition |-> easedPosition,
                  opacity |-> twinkleOpacityMin
                              + (easedPosition * (twinkleOpacityMax
                                                  - twinkleOpacityMin))
                                    \div 1000]

\* Values of currentTime - startTime at which the twinkle is sampled.
Times == {0, 3000, 5000, 6999, 7000}

\* Arguments easeInOutSine is sampled at.
EaseArguments == {0, 125, 250, 375, 500, 625, 750, 875, 1000}

\* ------------------------------------------------------------------------
\* main.js: page load
\* ------------------------------------------------------------------------

NoSched == [timers |-> EmptyBag, meteors |-> {},
            firedMeteorTimeouts |-> FALSE, firedShowerTimeouts |-> FALSE,
            isShowerActive |-> FALSE, created |-> NoMeteor]

\* The state when initializeApp has returned.  container and hero tell
\* whether #meteorsContainer and .hero are in the document, d is the hero's
\* diagonal and hidden is document.hidden while the modules load.
initializeApp(container, hero, d, hidden) ==
    LET ok == container /\ hero      \* what initializeMeteorSystem returns
    IN  /\ meteorsContainer = container
        /\ heroElement = ok
        /\ heroDiagonal = (IF ok THEN d ELSE 0)
        /\ keyframes = (IF ok THEN generateMeteorKeyframes(0, d) ELSE 0)
        /\ isShowerActive = FALSE
        /\ isPageVisible = ~hidden
        /\ firedMeteorTimeouts = FALSE
        /\ firedShowerTimeouts = FALSE
        /\ timers = (IF ok THEN startMeteors(NoSched).timers ELSE EmptyBag)
        /\ meteors = {}
        /\ starCanvas = FALSE
        /\ starCtx = FALSE
        /\ starPageVisible = ~hidden
        /\ animationFrameId = 0
        /\ frames = {[id |-> 1, cb |-> "initializeStars"]}
        /\ stars = EmptyBag
        /\ planets = <<>>
        /\ docHidden = hidden
        /\ handlersInstalled = ok
        /\ lastOp = "initializeApp"
        /\ lastDraw = "none"
        /\ canvasCalls = <<>>
        /\ lastCall = [fn |-> "none"]
        /\ lastMeteor = NoMeteor

Init ==
    \E container \in BOOLEAN, hero \in BOOLEAN, d \in Diagonals,
       hidden \in BOOLEAN :
        initializeApp(container, hero, d, hidden)

\* ------------------------------------------------------------------------
\* main.js: the visibilitychange and resize listeners
\* ------------------------------------------------------------------------

\* The tab is hidden.  Without the listener only document.hidden changes.
OnHidden ==
    /\ ~docHidden
    /\ docHidden' = TRUE
    /\ IF handlersInstalled
       THEN /\ starPageVisible' = FALSE
            /\ CommitRender(setPageVisible(Render, starCtx, starCanvas,
                                           FALSE, FALSE))
            /\ isPageVisible' = FALSE
            /\ Commit(stopMeteors(Sched))
            /\ lastOp' = "hidden"
            /\ UNCHANGED <<meteorsContainer, heroElement, heroDiagonal,
                           keyframes, starCanvas, starCtx, handlersInstalled>>
       ELSE UNCHANGED <<meteorVars, starVars, handlersInstalled, lastOp,
                        lastDraw, canvasCalls, lastMeteor>>
    /\ UNCHANGED <<sceneVars, lastCall>>

\* The tab is shown again.
OnVisible ==
    /\ docHidden
    /\ docHidden' = FALSE
    /\ IF handlersInstalled
       THEN /\ Untracked + singleMeteorStreamCount + 1
                   <= MaxUntracked
            /\ starPageVisible' = TRUE
            /\ \E throws \in BOOLEAN :
                   CommitRender(setPageVisible(Render, starCtx, starCanvas,
                                               TRUE, throws))
            /\ isPageVisible' = TRUE
            /\ Commit(restartMeteors(Sched))
            /\ lastOp' = "visible"
            /\ UNCHANGED <<meteorsContainer, heroElement, heroDiagonal,
                           keyframes, starCanvas, starCtx, handlersInstalled>>
       ELSE UNCHANGED <<meteorVars, starVars, handlersInstalled, lastOp,
                        lastDraw, canvasCalls, lastMeteor>>
    /\ UNCHANGED <<sceneVars, lastCall>>

\* The resize callback restarting the scheduler.
resizeCallbackRestarts(s) == restartMeteors(s)

\* What the debounced resize callback does to the scheduling state: nothing.
\* initializeNightSkySize, generateStars, updateHeroDiagonal and
\* generateMeteorKeyframes write the layout, the canvas, the two lists,
\* heroDiagonal and the style element; none of them arms or clears a timer,
\* writes isShowerActive or touches the meteor elements.
resizeCallback(s) == s

\* The debounced resize callback.  With a canvas and a context it looks up
\* #nightSky (sky tells whether it is found; if not, the lookup throws to the
\* catch) and regenerates the population from its rectangle; then
\* updateHeroDiagonal reads the new diagonal d and generateMeteorKeyframes
\* rebuilds the catalog from it.
OnResize ==
    /\ handlersInstalled
    /\ IF starCanvas /\ starCtx
       THEN \E sky \in BOOLEAN, rect \in Rects,
               innerWidth \in LifecycleInnerWidths :
              \E runs \in LifecyclePasses(getStarCount(innerWidth)),
                 p \in LifecyclePlanetDraws :
                IF sky
                THEN /\ CommitScene(generateStars(Scene, rect.width,
                                                  rect.height, innerWidth,
                                                  runs, p))
                     /\ CommitFrames(generateStarsFrames(Render))
                ELSE UNCHANGED <<sceneVars, animationFrameId, frames>>
       ELSE UNCHANGED <<sceneVars, animationFrameId, frames>>
    /\ \E d \in Diagonals :
           /\ heroDiagonal' = (IF heroElement THEN d ELSE heroDiagonal)
           /\ keyframes' = generateMeteorKeyframes(keyframes, heroDiagonal')
    /\ Commit(resizeCallback(Sched))
    /\ lastOp' = "resize"
    /\ lastDraw' = "none"
    /\ canvasCalls' = <<>>
    /\ UNCHANGED <<meteorsContainer, heroElement, isPageVisible, starCanvas,
                   starCtx, starPageVisible, docHidden, handlersInstalled,
                   lastCall>>

\* ------------------------------------------------------------------------
\* Timer callbacks
\* ------------------------------------------------------------------------

\* The values of Math.random() for the angle and the tier of a stream
\* meteor the page lifecycle is explored with, in thousandths: the last
\* preset and the last tier.
MeteorDraws == {[angle |-> 999, tier |-> 999]}

\* The values of Math.random() for a shower meteor: selectMeteorAngle draws
\* none when it is given a shower angle, the tier is the middle one.
ShowerMeteorDraws == {[angle |-> 0, tier |-> 500]}

\* The value of Math.random() for the shower angle the page lifecycle is
\* explored with: the angle nearest to angleMax.
LifecycleShowerDraws == {999}

TimerFrame ==
    /\ lastDraw' = "none"
    /\ canvasCalls' = <<>>
    /\ UNCHANGED <<meteorsContainer, heroElement, heroDiagonal, keyframes,
                   isPageVisible, starVars, sceneVars, docHidden,
                   handlersInstalled, lastCall>>

\* The container holds fewer than MaxMeteors elements whenever the callback
\* about to run appends one.
RoomForMeteor == (isPageVisible /\ CanCreateMeteor)
                     => Cardinality(meteors) < MaxMeteors

FireSingle(t) ==
    /\ t.kind = "single" /\ CanFire(t) /\ RoomForMeteor
    /\ \E r \in MeteorDraws :
           Commit(createSingleMeteor(AfterFiring(t), isPageVisible, r))
    /\ lastOp' = (IF isPageVisible THEN "singleAttempt" ELSE "singleSkipped")
    /\ TimerFrame

FireTrigger(t) ==
    /\ t.kind = "trigger" /\ CanFire(t)
    /\ \E n \in BurstSizes, r \in LifecycleShowerDraws :
         \E d \in [0..(n - 1) -> UNION {StaggerDelays(i) : i \in 0..(n - 1)}] :
           /\ \A i \in 0..(n - 1) : d[i] \in StaggerDelays(i)
           /\ Commit(triggerMeteorShower(AfterFiring(t), isPageVisible, n, d,
                                         r))
    /\ lastOp' = (IF ShowerBlocked(isShowerActive, isPageVisible)
                  THEN "showerSkipped" ELSE "showerStarted")
    /\ TimerFrame

FireShowerMeteor(t) ==
    /\ t.kind = "showerMeteor" /\ CanFire(t) /\ RoomForMeteor
    /\ \E r \in ShowerMeteorDraws :
           Commit(showerMeteor(AfterFiring(t), isPageVisible, t.angle, r))
    /\ lastOp' = "showerMeteor"
    /\ TimerFrame

FireShowerCleanup(t) ==
    /\ t.kind = "showerCleanup" /\ CanFire(t)
    /\ Commit(showerCleanup(AfterFiring(t), isPageVisible))
    /\ lastOp' = "showerCleanup"
    /\ TimerFrame

FireMeteorCleanup(t) ==
    /\ t.kind = "meteorCleanup" /\ CanFire(t)
    /\ Commit(meteorCleanup(AfterFiring(t), t.meteor, isPageVisible))
    /\ lastOp' = "meteorCleanup"
    /\ TimerFrame

\* ------------------------------------------------------------------------
\* Animation-frame callbacks
\* ------------------------------------------------------------------------

FrameFrame ==
    /\ lastMeteor' = NoMeteor
    /\ UNCHANGED <<meteorVars, starPageVisible, docHidden, handlersInstalled,
                   lastCall>>

\* initializeStars, run from the frame initializeApp requested.  canvas, ctx
\* and sky tell whether #starCanvas is found, getContext returns a context
\* and #nightSky is found; a failure throws to the catch before generateStars.
\* rect is the rectangle of #nightSky.
FireInitializeStars(f) ==
    /\ f.cb = "initializeStars"
    /\ \E canvas \in BOOLEAN, ctx \in BOOLEAN, sky \in BOOLEAN,
          throws \in BOOLEAN, rect \in Rects,
          innerWidth \in LifecycleInnerWidths :
         \E runs \in LifecyclePasses(getStarCount(innerWidth)),
            p \in LifecyclePlanetDraws :
           /\ starCanvas' = canvas
           /\ starCtx' = (canvas /\ ctx)
           /\ LET r == [Render EXCEPT !.frames = frames \ {f}]
                  sc == generateStars(Scene, rect.width, rect.height,
                                      innerWidth, runs, p)
              IN  IF canvas /\ ctx /\ sky
                  THEN /\ CommitScene(sc)
                       /\ CommitRender(renderStars(
                              [generateStarsFrames(r) EXCEPT !.scene = sc],
                              starCtx', starCanvas', starPageVisible, throws))
                  ELSE /\ CommitRender(r)
                       /\ UNCHANGED sceneVars
    /\ lastOp' = "initializeStars"
    /\ FrameFrame

\* renderStars as the callback of the frame it requested.
FireRenderFrame(f) ==
    /\ f.cb = "renderStars"
    /\ \E throws \in BOOLEAN :
           CommitRender(renderStars([Render EXCEPT !.frames = frames \ {f}],
                                    starCtx, starCanvas, starPageVisible,
                                    throws))
    /\ lastOp' = "frame"
    /\ UNCHANGED <<starCanvas, starCtx, sceneVars>>
    /\ FrameFrame

Next ==
    \/ OnHidden
    \/ OnVisible
    \/ OnResize
    \/ \E t \in BagToSet(timers) : FireSingle(t)
    \/ \E t \in BagToSet(timers) : FireTrigger(t)
    \/ \E t \in BagToSet(timers) : FireShowerMeteor(t)
    \/ \E t \in BagToSet(timers) : FireShowerCleanup(t)
    \/ \E t \in BagToSet(timers) : FireMeteorCleanup(t)
    \/ \E f \in frames : FireInitializeStars(f)
    \/ \E f \in frames : FireRenderFrame(f)

Spec == Init /\ [][Next]_vars

TypeOK ==
    /\ meteorsContainer \in BOOLEAN /\ heroElement \in BOOLEAN
    /\ heroDiagonal \in Diagonals /\ keyframes \in Diagonals
    /\ isShowerActive \in BOOLEAN /\ isPageVisible \in BOOLEAN
    /\ Cardinality(meteors) <= MaxMeteors
    /\ starPageVisible \in BOOLEAN /\ animationFrameId \in Nat
    /\ lastDraw \in {"none", "drawn", "error"}


\* ------------------------------------------------------------------------
\* The scheduler on its own.  The animation-frame callbacks neither read nor
\* write a variable of meteors.js, so the scheduler's behaviours are those of
\* Next without them.  The liveness properties are checked on this part,
\* with the fairness the browser gives: a pending timer fires once its delay
\* has elapsed.  A cleanup callback is never held back (weak fairness); a
\* stream callback can be held back by RoomForMeteor (strong fairness).
\* ------------------------------------------------------------------------

NextMeteors ==
    \/ OnHidden
    \/ OnVisible
    \/ OnResize
    \/ \E t \in BagToSet(timers) : FireSingle(t)
    \/ \E t \in BagToSet(timers) : FireTrigger(t)
    \/ \E t \in BagToSet(timers) : FireShowerMeteor(t)
    \/ \E t \in BagToSet(timers) : FireShowerCleanup(t)
    \/ \E t \in BagToSet(timers) : FireMeteorCleanup(t)

CleanupFairness ==
    \A m \in 1..MaxMeteors :
        WF_vars(\E t \in BagToSet(timers) :
                    t.meteor = m /\ FireMeteorCleanup(t))

StreamFairness == SF_vars(\E t \in BagToSet(timers) : FireSingle(t))

FairCleanupSpec == Init /\ [][NextMeteors]_vars /\ CleanupFairness

FairStreamSpec ==
    Init /\ [][NextMeteors]_vars /\ CleanupFairness /\ StreamFairness

\* A pending trigger or shower cleanup fires; a staggered meteor callback can
\* be held back by RoomForMeteor, like a stream callback.
ShowerFairness ==
    /\ WF_vars(\E t \in BagToSet(timers) : FireTrigger(t))
    /\ SF_vars(\E t \in BagToSet(timers) : FireShowerMeteor(t))
    /\ WF_vars(\E t \in BagToSet(timers) : FireShowerCleanup(t))

FairShowerSpec ==
    Init /\ [][NextMeteors]_vars /\ CleanupFairness /\ ShowerFairness

\* ------------------------------------------------------------------------
\* The exported functions on their own: generateStars, getTwinkleOpacity and
\* easeInOutSine applied to arguments drawn from the sets above, on a loaded
\* page on which no handler runs.  lastCall records the call and what it
\* returned.
\* ------------------------------------------------------------------------

FunctionInit == initializeApp(TRUE, TRUE, 1000, FALSE)

FunctionFrame ==
    UNCHANGED <<meteorVars, starVars, docHidden, handlersInstalled, lastOp,
                lastDraw, canvasCalls, lastMeteor>>

CallGenerateStars ==
    /\ \E canvasWidth \in ArgExtents, canvasHeight \in ArgExtents :
         /\ IF InvalidDimensions(canvasWidth, canvasHeight)
            THEN /\ CommitScene(generateStars(Scene, canvasWidth,
                                              canvasHeight, mobileBreakpoint,
                                              <<>>, CentralPlanetDraw))
                 /\ lastCall' = [fn |-> "generateStars",
                                 canvasWidth |-> canvasWidth,
                                 canvasHeight |-> canvasHeight,
                                 innerWidth |-> mobileBreakpoint]
            ELSE \E innerWidth \in InnerWidths :
                   \E in \in PassInputs(getStarCount(innerWidth)) :
                     /\ CommitScene(generateStars(Scene, canvasWidth,
                                                  canvasHeight, innerWidth,
                                                  in.runs, in.p))
                     /\ lastCall' = [fn |-> "generateStars",
                                     canvasWidth |-> canvasWidth,
                                     canvasHeight |-> canvasHeight,
                                     innerWidth |-> innerWidth]
    /\ FunctionFrame

\* getTwinkleOpacity applied to a twinkling star of the list, as renderStars
\* applies it.
CallGetTwinkleOpacity ==
    /\ \E star \in {s \in BagToSet(stars) : ~s.isStatic}, now \in Times :
         LET r == getTwinkleOpacity(star, now)
         IN  lastCall' = [fn |-> "getTwinkleOpacity", elapsed |-> r.elapsed,
                          cyclePosition |-> r.cyclePosition,
                          easedPosition |-> r.easedPosition,
                          opacity |-> r.opacity]
    /\ UNCHANGED sceneVars
    /\ FunctionFrame

CallEaseInOutSine ==
    /\ \E t \in EaseArguments :
         lastCall' = [fn |-> "easeInOutSine", t |-> t,
                      eased |-> easeInOutSine(t)]
    /\ UNCHANGED sceneVars
    /\ FunctionFrame

NextFunction ==
    \/ CallGenerateStars
    \/ CallGetTwinkleOpacity
    \/ CallEaseInOutSine

FunctionSpec == FunctionInit /\ [][NextFunction]_vars

\* ------------------------------------------------------------------------
\* The helpers on their own: updateHeroDiagonal and generateMeteorKeyframes
\* as the resize callback calls them, selectMeteorAngle as createMeteor
\* calls it and getSpectralColor as generateStars calls it, on a loaded page
\* on which no handler runs.
\* ------------------------------------------------------------------------

\* Diagonals of the hero element, in pixels: none, below, at and above the
\* 25 px the short tier subtracts, and a page-sized one.
KeyframeDiagonals == {0, 1, 10, 24, 25, 26, 1000}

\* showerAngle of triggerMeteorShower, in tenths of a degree: the whole
\* degrees of angleMin..angleMax and the midpoints between two presets.
ShowerSeeds ==
    {10 * a : a \in 130..160} \cup {1325 + 50 * k : k \in 0..5}

\* CONFIG.stars.spectralClasses as shipped, with the last percentage two
\* hundredths short of a total of 1, and in the reverse order.
SpectralConfigs ==
    {spectralClasses,
     [spectralClasses EXCEPT ![5].percentage = @ - 2],
     [i \in DOMAIN spectralClasses |->
         spectralClasses[Len(spectralClasses) + 1 - i]]}

\* Values of the spectral draw, in hundredths: at, just below and just above
\* every cumulative percentage.
SpectralBoundaryDraws ==
    {0, 4, 5, 6, 19, 20, 21, 29, 30, 31, 49, 50, 51, 79, 80, 81, 94, 95, 96,
     98, 99}

HelperFrame ==
    UNCHANGED <<meteorsContainer, heroElement, isShowerActive, isPageVisible,
                timers, firedMeteorTimeouts, firedShowerTimeouts, meteors,
                starVars, sceneVars, docHidden, handlersInstalled, lastOp,
                lastDraw, canvasCalls, lastMeteor>>

CallUpdateHeroDiagonal ==
    /\ \E d \in KeyframeDiagonals :
         heroDiagonal' = (IF heroElement THEN d ELSE heroDiagonal)
    /\ lastCall' = [fn |-> "updateHeroDiagonal"]
    /\ UNCHANGED keyframes
    /\ HelperFrame

CallGenerateMeteorKeyframes ==
    /\ keyframes' = generateMeteorKeyframes(keyframes, heroDiagonal)
    /\ lastCall' = [fn |-> "generateMeteorKeyframes",
                    heroDiagonal |-> heroDiagonal]
    /\ UNCHANGED heroDiagonal
    /\ HelperFrame

CallSelectMeteorAngle ==
    /\ \E baseAngle \in ShowerSeeds \cup {NoBaseAngle} :
         \E r \in (IF baseAngle = NoBaseAngle THEN {0, 500, 999} ELSE {0}) :
           lastCall' = [fn |-> "selectMeteorAngle", baseAngle |-> baseAngle,
                        angle |-> selectMeteorAngle(baseAngle, r)]
    /\ UNCHANGED <<heroDiagonal, keyframes>>
    /\ HelperFrame

CallGetSpectralColor ==
    /\ \E classes \in SpectralConfigs, rand \in SpectralBoundaryDraws :
         lastCall' = [fn |-> "getSpectralColor", classes |-> classes,
                      rand |-> rand,
                      color |-> SpectralLoop(classes, rand, 1, 0)]
    /\ UNCHANGED <<heroDiagonal, keyframes>>
    /\ HelperFrame

\* Values of Math.random() for a start position, in thousandths: the ends
\* of the range and the values around startX = 100.
StartDraws == {0, 333, 666, 667, 668, 999}

CallCalculateMeteorStartPosition ==
    /\ \E rx \in StartDraws, ry \in StartDraws :
         lastCall' = [fn |-> "calculateMeteorStartPosition",
                      position |-> calculateMeteorStartPosition(rx, ry)]
    /\ UNCHANGED <<heroDiagonal, keyframes>>
    /\ HelperFrame

NextHelpers ==
    \/ CallCalculateMeteorStartPosition
    \/ CallUpdateHeroDiagonal
    \/ CallGenerateMeteorKeyframes
    \/ CallSelectMeteorAngle
    \/ CallGetSpectralColor

HelperSpec == FunctionInit /\ [][NextHelpers]_vars

\* ------------------------------------------------------------------------
\* Showers of the configured size: the timer callbacks of the scheduler on a
\* visible page that is neither hidden nor resized, with bursts of
\* showerCountMin..showerCountMax meteors.  lastCall records what
\* triggerMeteorShower armed.
\* ------------------------------------------------------------------------

\* The delays the for loop of triggerMeteorShower draws for a burst of n
\* meteors: every Math.random() at its lowest, every one at its highest,
\* and lowest and highest in turn, starting with either.
BurstStaggers(n) ==
    {[i \in 0..(n - 1) |-> i * showerIntervalMin],
     [i \in 0..(n - 1) |-> IF i = 0 THEN 0 ELSE i * showerIntervalMax - 1],
     [i \in 0..(n - 1) |-> IF i % 2 = 0 THEN i * showerIntervalMin
                           ELSE i * showerIntervalMax - 1],
     [i \in 0..(n - 1) |-> IF i % 2 = 1 THEN i * showerIntervalMin
                           ELSE IF i = 0 THEN 0
                           ELSE i * showerIntervalMax - 1]}

\* Values of Math.random() for the shower angle, in thousandths: the ends
\* of the range, the first midpoint between two presets and the last.
ShowerDraws == {0, 84, 917, 999}

FireTriggerBurst(t) ==
    /\ t.kind = "trigger" /\ CanFire(t)
    /\ \E n \in showerCountMin..showerCountMax, r \in ShowerDraws :
         \E d \in BurstStaggers(n) :
           /\ Commit(triggerMeteorShower(AfterFiring(t), isPageVisible, n, d,
                                         r))
           /\ lastCall' =
                  IF ShowerBlocked(isShowerActive, isPageVisible)
                  THEN [fn |-> "triggerMeteorShower", numMeteors |-> 0,
                        delays |-> <<>>, cleanupDelay |-> 0]
                  ELSE [fn |-> "triggerMeteorShower", numMeteors |-> n,
                        delays |-> d, cleanupDelay |-> ShowerCleanupDelay(n)]
    /\ lastOp' = (IF ShowerBlocked(isShowerActive, isPageVisible)
                  THEN "showerSkipped" ELSE "showerStarted")
    /\ lastDraw' = "none"
    /\ canvasCalls' = <<>>
    /\ UNCHANGED <<meteorsContainer, heroElement, heroDiagonal, keyframes,
                   isPageVisible, starVars, sceneVars, docHidden,
                   handlersInstalled>>

NextBursts ==
    \/ \E t \in BagToSet(timers) : FireSingle(t)
    \/ \E t \in BagToSet(timers) : FireTriggerBurst(t)
    \/ \E t \in BagToSet(timers) : FireShowerMeteor(t)
    \/ \E t \in BagToSet(timers) : FireShowerCleanup(t)
    \/ \E t \in BagToSet(timers) : FireMeteorCleanup(t)

BurstSpec == FunctionInit /\ [][NextBursts]_vars

\* ------------------------------------------------------------------------
\* Properties
\* ------------------------------------------------------------------------

\* C1: after the hidden branch of the visibilitychange listener has returned
\* (setMeteorPageVisible(false), stopMeteors()), no timer is pending.
C1_NoTimerSurvivesSuspend == lastOp = "hidden" => timers = EmptyBag

\* C2: no step taken while the meteor module's isPageVisible is false adds a
\* meteor to the container, whichever callback runs.
C2_NoCreationWhileHidden == [][~isPageVisible => meteors' \subseteq meteors]_vars

\* A stream timer has fired while the page was hidden.
C2_Witness == ~isPageVisible /\ lastOp = "singleSkipped" /\ CanCreateMeteor

\* C3: at most singleMeteorStreamCount stream timers and at most one shower
\* trigger are pending, after any sequence of hide and show events.
C3_ChainsBounded ==
    Pending("single") <= singleMeteorStreamCount /\ Pending("trigger") <= 1

\* C4: at most one callback of the render loop is pending, and none is
\* pending when animationFrameId is null, which is the only case in which
\* setPageVisible(true) requests a frame.
C4_OneFrameLoop ==
    Cardinality(RenderFrames) <= 1 /\ (animationFrameId = 0 => RenderFrames = {})

\* The loop is running again after a hide and a show.
C4_Witness == lastOp = "visible" /\ Cardinality(RenderFrames) = 1

\* C5: while the star module's isPageVisible is false no callback of the
\* render loop is pending and the handler that ran last drew nothing.
C5_SuspendedNeverDraws ==
    ~starPageVisible => (RenderFrames = {} /\ lastDraw = "none")

\* The renderer was initialised and the page has been hidden.
C5_Witness == lastOp = "hidden" /\ starCtx /\ starCanvas /\ ~starPageVisible

\* C6: whenever document.hidden is true the star renderer is suspended.
C6_HiddenSuspendsRenderer ==
    docHidden => (~starPageVisible /\ RenderFrames = {})

\* Bursts that still have a staggered meteor timer pending.
PendingBursts == {t.burst : t \in {u \in BagToSet(timers) : u.kind = "showerMeteor"}}

\* C7: a shower trigger that fires while isShowerActive is true only leaves
\* the queue (no variable of the scheduler changes, no timer is armed), and
\* the pending staggered timers always belong to one burst.
C7_ShowerMutex ==
    [][/\ (lastOp' = "showerSkipped" /\ isShowerActive) =>
              /\ isShowerActive' /\ meteors' = meteors
              /\ BagCardinality(timers') = BagCardinality(timers) - 1
       /\ Cardinality(PendingBursts') <= 1]_vars

\* A trigger has fired on a visible page during a shower.
C7_Witness == lastOp = "showerSkipped" /\ isShowerActive /\ isPageVisible

\* C8: when stopMeteors has returned the container is empty, isShowerActive
\* is false and both ID arrays are empty.
C8_StopLeavesNothing ==
    lastOp = "hidden" =>
        /\ meteors = {}
        /\ ~isShowerActive
        /\ ListEmpty(timers, firedMeteorTimeouts, "activeMeteorTimeouts")
        /\ ListEmpty(timers, firedShowerTimeouts, "activeShowerTimeouts")

\* stopMeteors has run on an initialised meteor system.
C8_Witness == lastOp = "hidden" /\ CanCreateMeteor /\ timers # EmptyBag

\* C9: every meteor in the container is eventually removed from it.
C9_MeteorsRemoved ==
    \A m \in 1..MaxMeteors : (m \in meteors) ~> (m \notin meteors)

\* A stream timer has just created a meteor.
C9_Witness == lastOp = "singleAttempt" /\ meteors # {}

\* C10: a firing of createSingleMeteor on a visible page re-arms exactly one
\* stream timer; if the page stays visible from some point on, such firings
\* happen infinitely often; after every resume one happens unless the page
\* is hidden first.
C10_StreamRunsForever ==
    /\ [][lastOp' = "singleAttempt" => Pending("single")' = Pending("single")]_vars
    /\ (<>[](isPageVisible /\ handlersInstalled)
            => []<>(lastOp = "singleAttempt"))
    /\ (lastOp = "visible") ~> (lastOp \in {"singleAttempt", "hidden"})

\* A stream timer has fired after a resume.
C10_Witness == lastOp = "singleAttempt" /\ Untracked > singleMeteorStreamCount

\* C11: the cleanup callback of a shower marks the shower inactive and arms
\* exactly one trigger; every active shower is eventually marked inactive, by
\* its cleanup callback unless the page is hidden first; if the page stays
\* visible from some point on, showers start infinitely often.
C11_ShowersRecur ==
    /\ [][(lastOp' = "showerCleanup" /\ isPageVisible) =>
              /\ ~isShowerActive'
              /\ Pending("trigger")' = Pending("trigger") + 1]_vars
    /\ isShowerActive ~>
           (~isShowerActive /\ lastOp \in {"showerCleanup", "hidden"})
    /\ (<>[](isPageVisible /\ handlersInstalled)
            => []<>(lastOp = "showerStarted"))

\* A shower has started after the timers of an earlier one have fired, from
\* the only trigger that was pending.
C11_Witness ==
    /\ lastOp = "showerStarted" /\ firedShowerTimeouts
    /\ Pending("trigger") = 0 /\ Untracked = 0

\* C12: when a canvas call throws, renderStars returns with no frame request
\* pending and animationFrameId null; and while no callback of the render
\* loop is pending, the only handlers that draw are the visible branch of the
\* listener (setPageVisible(true)) and initializeStars.
C12_ErrorStopsLoop ==
    /\ [](lastDraw = "error" => (RenderFrames = {} /\ animationFrameId = 0))
    /\ [][(/\ RenderFrames = {}
           /\ lastDraw' # "none"
           /\ <<starVars, lastOp, lastDraw>>' # <<starVars, lastOp, lastDraw>>)
              => lastOp' \in {"visible", "initializeStars"}]_vars

\* A canvas call has thrown inside a frame callback.
C12_Witness == lastDraw = "error" /\ lastOp = "frame"

\* initializeStars has run.
StarsInitialized == \A f \in frames : f.cb # "initializeStars"

\* C14: without a canvas or a context no callback of the render loop is ever
\* pending and no handler draws, and initializeStars changes no variable of
\* the meteor scheduler.
C14_RendererFailsAlone ==
    /\ []((~starCanvas \/ ~starCtx) =>
              (RenderFrames = {} /\ animationFrameId = 0
               /\ lastDraw = "none"))
    /\ [][lastOp' = "initializeStars" => UNCHANGED meteorVars]_vars

\* setPageVisible(true) has run after initializeStars failed to get a
\* context, and the meteor scheduler has been restarted.
C14_Witness ==
    /\ StarsInitialized /\ ~starCtx /\ lastOp = "visible"
    /\ Pending("single") >= singleMeteorStreamCount

\* C13: whenever the Star list is empty, as it is when generateStars has
\* returned from a call with an invalid dimension, the Planet list is empty.
C13_InvalidEmptiesScene == stars = EmptyBag => planets = <<>>

\* C15: the Star list and the Planet list a frame draws were both produced
\* by the generateStars call made last.
C15_FrameSeesOnePass ==
    lastDraw = "drawn" =>
        /\ \A s \in BagToSet(stars) : s.pass = "current"
        /\ \A i \in DOMAIN planets : planets[i].pass = "current"

\* C16: when the resize callback has returned, the installed catalog is the
\* one computed from the current heroDiagonal: 24 rules with distinct names.
C16_CatalogFollowsDiagonal ==
    lastOp = "resize" =>
        /\ InstalledCatalog = Catalog(heroDiagonal)
        /\ Cardinality({c.name : c \in InstalledCatalog}) = 24

\* The generateStars call made last had valid dimensions.
ValidCallReturned ==
    /\ lastCall.fn = "generateStars"
    /\ ~InvalidDimensions(lastCall.canvasWidth, lastCall.canvasHeight)

\* Number of stars of the list with the given role.
StarsOfRole(role) ==
    BagCardinality([s \in {u \in BagToSet(stars) : u.role = role}
                       |-> stars[s]])

\* C17: when generateStars has returned from a call with valid dimensions,
\* the Star list holds exactly N primary stars (800 below the breakpoint of
\* 768, otherwise 1200) and at most one companion per primary, every star
\* has one of the 5 spectral colours, the Planet list holds exactly 5
\* planets, and every star and planet was pushed by this call.
C17_PopulationReplaced ==
    ValidCallReturned =>
        LET N == IF lastCall.innerWidth < 768 THEN 800 ELSE 1200
        IN  /\ StarsOfRole("primary") = N
            /\ StarsOfRole("companion") <= N
            /\ BagCardinality(stars) = N + StarsOfRole("companion")
            /\ Cardinality(SpectralColors) = 5
            /\ \A s \in BagToSet(stars) :
                   s.color \in SpectralColors /\ s.pass = "current"
            /\ Len(planets) = 5
            /\ \A i \in DOMAIN planets : planets[i].pass = "current"

\* A valid call on the narrow viewport has returned a list with one
\* companion.
C17_Witness ==
    /\ ValidCallReturned /\ lastCall.innerWidth < mobileBreakpoint
    /\ BagCardinality(stars) = countMobile + 1

\* C18: every star of the list has either a fixed opacity and no twinkle
\* parameter, or both twinkle parameters and no fixed opacity.
C18_OneParameterSet ==
    \A s \in BagToSet(stars) :
        IF s.isStatic
        THEN /\ "opacity" \in DOMAIN s
             /\ "twinkleDelay" \notin DOMAIN s
             /\ "twinkleDuration" \notin DOMAIN s
        ELSE /\ "opacity" \notin DOMAIN s
             /\ "twinkleDelay" \in DOMAIN s
             /\ "twinkleDuration" \in DOMAIN s

\* The list holds a twinkling companion next to static primaries.
C18_Witness ==
    \E s \in BagToSet(stars), t \in BagToSet(stars) :
        s.role = "companion" /\ ~s.isStatic /\ t.isStatic

\* C19: every star of a generated population lies inside the canvas the
\* call was given (lengths in thousandths of a pixel).
C19_StarsInsideCanvas ==
    ValidCallReturned =>
        \A s \in BagToSet(stars) :
            /\ 0 <= s.x /\ s.x <= 1000 * lastCall.canvasWidth
            /\ 0 <= s.y /\ s.y <= 1000 * lastCall.canvasHeight

\* C20: the easing is 0 at both ends of a cycle and 1 in the middle, so a
\* twinkling star is at its largest opacity half-way through a cycle and at
\* its smallest one at the end of it.
C20_EasePulse ==
    /\ lastCall.fn = "easeInOutSine" =>
           /\ lastCall.t = 0 => lastCall.eased = 0
           /\ lastCall.t = 1000 => lastCall.eased = 0
           /\ lastCall.t = 500 => lastCall.eased = 1000
    /\ (lastCall.fn = "getTwinkleOpacity" /\ lastCall.elapsed >= 0) =>
           /\ lastCall.cyclePosition = 500
                  => lastCall.opacity = twinkleOpacityMax
           /\ lastCall.cyclePosition >= 999
                  => lastCall.opacity = twinkleOpacityMin

\* C21: for a twinkling star and a time at or past its phase delay,
\* getTwinkleOpacity returns the same opacity one twinkleDuration later.
C21_TwinklePeriodic ==
    \A s \in BagToSet(stars), t \in Times :
        (~s.isStatic /\ t >= s.twinkleDelay) =>
            getTwinkleOpacity(s, t + s.twinkleDuration).opacity
                = getTwinkleOpacity(s, t).opacity

\* A call past the phase delay, inside a cycle, on a star whose opacity is
\* above the minimum there.
C21_Witness ==
    /\ lastCall.fn = "getTwinkleOpacity"
    /\ lastCall.elapsed > 0
    /\ lastCall.cyclePosition > 0
    /\ lastCall.opacity > twinkleOpacityMin

\* The part of displacement (endX, endY) along the direction of angle, and
\* the part across it, in millionths of a pixel.
Along(c) == c.endX * KeyframeCos(c.angle) + c.endY * KeyframeSin(c.angle)
Across(c) == c.endX * KeyframeSin(c.angle) - c.endY * KeyframeCos(c.angle)

\* Largest error of Along per pixel of distance that the rounding of the
\* two tables to thousandths allows, in millionths.
TableSlack == 2000

\* C22: after generateMeteorKeyframes has run with a positive diagonal, the
\* displacement of every rule points along the rule's angle and its length
\* is the tier distance: diagonal - 25, diagonal or diagonal + 25.
C22_DisplacementIsTierDistance ==
    (lastCall.fn = "generateMeteorKeyframes" /\ lastCall.heroDiagonal > 0) =>
        \A c \in InstalledCatalog :
            LET distance == TierDistance(lastCall.heroDiagonal, c.name[3])
            IN  /\ Across(c) = 0
                /\ Along(c) >= 0
                /\ Abs(Along(c) - 1000000 * distance)
                       <= TableSlack * Abs(distance)

\* C23: for a shower seed, selectMeteorAngle returns a preset that no preset
\* is closer to the seed than, and the first such preset in array order.
C23_ClosestPresetFirst ==
    (lastCall.fn = "selectMeteorAngle" /\ lastCall.baseAngle # NoBaseAngle) =>
        \E i \in DOMAIN METEOR_ANGLES :
            /\ lastCall.angle = METEOR_ANGLES[i]
            /\ \A j \in DOMAIN METEOR_ANGLES :
                   Abs(10 * METEOR_ANGLES[j] - lastCall.baseAngle)
                       >= Abs(10 * METEOR_ANGLES[i] - lastCall.baseAngle)
            /\ \A j \in 1..(i - 1) :
                   Abs(10 * METEOR_ANGLES[j] - lastCall.baseAngle)
                       > Abs(10 * METEOR_ANGLES[i] - lastCall.baseAngle)
            /\ (lastCall.baseAngle = 1580 => lastCall.angle = 160)

\* A seed halfway between two presets, answered with the earlier one.
C23_Witness ==
    /\ lastCall.fn = "selectMeteorAngle"
    /\ lastCall.baseAngle = 1575
    /\ lastCall.angle = 155

\* The cumulative percentage of the first i classes.
RECURSIVE Cumulative(_, _)
Cumulative(classes, i) ==
    IF i = 0 THEN 0 ELSE Cumulative(classes, i - 1) + classes[i].percentage

\* C28: the sampler returns the first class, in list order, whose cumulative
\* percentage meets or exceeds the draw.
C28_FirstClassReachingDraw ==
    lastCall.fn = "getSpectralColor" =>
        LET classes == lastCall.classes
            reached == {i \in DOMAIN classes :
                           lastCall.rand <= Cumulative(classes, i)}
        IN  reached # {} =>
                \E i \in reached :
                    /\ \A j \in reached : i <= j
                    /\ lastCall.color = classes[i].color

\* A draw equal to the cumulative percentage of the second class.
C28_Witness ==
    /\ lastCall.fn = "getSpectralColor"
    /\ lastCall.classes = spectralClasses
    /\ lastCall.rand = Cumulative(spectralClasses, 2)
    /\ lastCall.color = spectralClasses[2].color

\* C29: a draw above the final cumulative percentage is answered with the
\* last class of the list.
C29_FallbackIsLastClass ==
    (/\ lastCall.fn = "getSpectralColor"
     /\ lastCall.rand > Cumulative(lastCall.classes, Len(lastCall.classes)))
        => lastCall.color = lastCall.classes[Len(lastCall.classes)].color

\* Pending staggered meteor timers of the shower in progress.
PendingShowerMeteors == Pending("showerMeteor")

\* C24: the cleanup timer of a burst is armed with a delay above that of
\* every staggered meteor timer, it fires only when none of them is pending,
\* and isShowerActive is true as long as one of them is.
C24_CleanupAfterLastMeteor ==
    /\ [](lastCall.fn = "triggerMeteorShower" =>
              \A i \in DOMAIN lastCall.delays :
                  lastCall.delays[i] < lastCall.cleanupDelay)
    /\ [](PendingShowerMeteors > 0 => isShowerActive)
    /\ [][lastOp' = "showerCleanup" => PendingShowerMeteors = 0]_vars

\* The cleanup of a burst of showerCountMax meteors has fired.
C24_Witness ==
    /\ lastOp = "showerCleanup"
    /\ lastCall.fn = "triggerMeteorShower"
    /\ lastCall.numMeteors = showerCountMax
    /\ ~isShowerActive

\* C25: in a burst, every meteor is scheduled showerIntervalMin to
\* showerIntervalMax milliseconds after the meteor before it.
C25_StaggerFromPrevious ==
    lastCall.fn = "triggerMeteorShower" =>
        \A i \in DOMAIN lastCall.delays :
            (i + 1) \in DOMAIN lastCall.delays =>
                /\ lastCall.delays[i + 1] - lastCall.delays[i]
                       >= showerIntervalMin
                /\ lastCall.delays[i + 1] - lastCall.delays[i]
                       <= showerIntervalMax

\* C26: the resize callback leaves isShowerActive, the pending timers, the
\* two ID lists and the meteor elements as they were.
C26_ResizeKeepsScheduler ==
    [][lastOp' = "resize" =>
          UNCHANGED <<isShowerActive, timers, firedMeteorTimeouts,
                      firedShowerTimeouts, meteors, isPageVisible>>]_vars

\* A resize during a shower whose staggered meteor is still to come, with a
\* meteor in flight.
C26_Witness ==
    /\ lastOp = "resize"
    /\ isShowerActive
    /\ PendingShowerMeteors > 0
    /\ Pending("showerCleanup") > 0
    /\ meteors # {}

\* C30: after a valid call the five planets have strictly increasing x in
\* the order of CONFIG.planets, every x lies strictly between 0 and the
\* width, and every y lies between 0 and the height.
C30_PlanetsSpread ==
    ValidCallReturned =>
        /\ Len(planets) = Len(CONFIG_planets)
        /\ \A i \in DOMAIN planets :
               /\ planets[i].name = CONFIG_planets[i].name
               /\ 0 < planets[i].x
               /\ planets[i].x < 1000 * lastCall.canvasWidth
               /\ 0 <= planets[i].y
               /\ planets[i].y <= 1000 * lastCall.canvasHeight
               /\ (i + 1) \in DOMAIN planets =>
                      planets[i].x < planets[i + 1].x

\* Two neighbours drawn towards one another: less than an eighth of their
\* base spacing apart.
C30_Witness ==
    /\ ValidCallReturned
    /\ \E i \in DOMAIN planets :
           /\ (i + 1) \in DOMAIN planets
           /\ 8 * (planets[i + 1].x - planets[i].x)
                  <= (1000 * lastCall.canvasWidth)
                         \div (Len(CONFIG_planets) + 1)

\* The entries of canvasCalls that draw from the given list, in order.
CallsOf(list) ==
    SelectSeq(canvasCalls, LAMBDA c : c.op = "arc" /\ c.list = list)

\* C27: a frame drawn to its end clears the surface first, then draws every
\* star of the Star list in the order of the list, then every planet of the
\* Planet list in the order of the list, and requests the next frame last.
C27_FrameOrder ==
    lastDraw = "drawn" =>
        LET n == Len(canvasCalls)
            starCalls == CallsOf("stars")
            planetCalls == CallsOf("planets")
        IN  /\ n = 2 + Len(starCalls) + Len(planetCalls)
            /\ canvasCalls[1].op = "clearRect"
            /\ canvasCalls[n].op = "requestAnimationFrame"
            /\ RenderFrames # {} /\ animationFrameId # 0
            /\ \A i \in 2..(n - 1) : canvasCalls[i].op = "arc"
            /\ \A i \in 2..(n - 1), j \in 2..(n - 1) :
                   (canvasCalls[i].list = "stars"
                        /\ canvasCalls[j].list = "planets") => i < j
            \* the stars: each run of the list once, earlier runs first, a
            \* primary before its companion
            /\ \A i \in DOMAIN starCalls, j \in DOMAIN starCalls :
                   i < j => starCalls[i].first < starCalls[j].first
            /\ \A i \in DOMAIN starCalls :
                   /\ starCalls[i].items[1].role = "primary"
                   /\ \A k \in DOMAIN starCalls[i].items :
                          /\ BagIn(starCalls[i].items[k], stars)
                          /\ stars[starCalls[i].items[k]] = starCalls[i].times
                          /\ starCalls[i].items[k].first = starCalls[i].first
            /\ \A s \in BagToSet(stars) :
                   \E i \in DOMAIN starCalls, k \in 1..2 :
                       k \in DOMAIN starCalls[i].items
                           /\ starCalls[i].items[k] = s
            \* the planets: planets[1], planets[2], ... one call each
            /\ Len(planetCalls) = Len(planets)
            /\ \A i \in DOMAIN planetCalls :
                   planetCalls[i].items = <<planets[i]>>

\* A frame of a scene with a binary pair, other stars and the five planets.
C27_Witness ==
    /\ lastDraw = "drawn"
    /\ lastOp = "frame"
    /\ Len(CallsOf("stars")) >= 2
    /\ \E i \in DOMAIN CallsOf("stars") : Len(CallsOf("stars")[i].items) = 2
    /\ Len(CallsOf("planets")) = Len(CONFIG_planets)

\* C32: a start position has x between startXMin and startXMax percent;
\* its y is between -40 and 50 percent when x < 100 and between -10 and 50
\* percent otherwise.
C32_StartPositionRanges ==
    lastCall.fn = "calculateMeteorStartPosition" =>
        LET pos == lastCall.position
        IN  /\ 1000 * startXMin <= pos.x /\ pos.x <= 1000 * startXMax
            /\ pos.y <= 1000 * startYMax
            /\ pos.x < 100000 => pos.y >= 1000 * startYMinWhenXInBounds
            /\ pos.x >= 100000 => pos.y >= 1000 * startYMinWhenXOutOfBounds

\* A start beyond the right edge at the lowest y of its range.
C32_Witness ==
    /\ lastCall.fn = "calculateMeteorStartPosition"
    /\ lastCall.position.x >= 100000
    /\ lastCall.position.y = 1000 * startYMinWhenXOutOfBounds

\* C33: getTwinkleOpacity returns a value between twinkleOpacityMin and
\* twinkleOpacityMax, and twinkleOpacityMin before the star's phase delay.
C33_TwinkleWithinRange ==
    \A s \in BagToSet(stars), t \in Times :
        ~s.isStatic =>
            LET r == getTwinkleOpacity(s, t)
            IN  /\ twinkleOpacityMin <= r.opacity
                /\ r.opacity <= twinkleOpacityMax
                /\ t < s.twinkleDelay => r.opacity = twinkleOpacityMin

\* A call before the phase delay, and a list with a star that a sampled
\* time finds in the upper half of the range.
C33_Witness ==
    /\ lastCall.fn = "getTwinkleOpacity"
    /\ lastCall.elapsed < 0
    /\ lastCall.opacity = twinkleOpacityMin
    /\ \E s \in BagToSet(stars), t \in Times :
           /\ ~s.isStatic
           /\ 2 * getTwinkleOpacity(s, t).opacity
                  > twinkleOpacityMin + twinkleOpacityMax

\* C34: every ID held in activeMeteorTimeouts or activeShowerTimeouts is
\* the ID of a timer that is still pending.
C34_TrackedTimersPending == ~firedMeteorTimeouts /\ ~firedShowerTimeouts

\* The pending cleanup timers of showers that activeShowerTimeouts tracks.
TrackedShowerCleanups ==
    [t \in {u \in BagToSet(timers) : /\ u.kind = "showerCleanup"
                                     /\ u.list = "activeShowerTimeouts"}
        |-> timers[t]]

\* C35: while isShowerActive is true the cleanup timer of the shower is
\* pending and tracked in activeShowerTimeouts, so the flag is never left
\* true with no timer to reset it.
C35_ActiveShowerHasCleanup ==
    isShowerActive => BagCardinality(TrackedShowerCleanups) = 1

\* A resize arrives while a shower is active and leaves its cleanup timer
\* pending.
C35_Witness ==
    /\ isShowerActive
    /\ lastOp = "resize"
    /\ BagCardinality(TrackedShowerCleanups) = 1

\* C38: generateStars neither requests nor cancels a frame: the resize
\* callback leaves animationFrameId and the pending frames as they were, so
\* after a resize a suspended renderer is still suspended with no frame
\* pending and an active one still has the frame it had, at most one.
C38_ResizeKeepsFrames ==
    /\ [][lastOp' = "resize" =>
              UNCHANGED <<animationFrameId, frames, starPageVisible>>]_vars
    /\ [](lastOp = "resize" =>
              IF starPageVisible
              THEN Cardinality(RenderFrames) <= 1
              ELSE RenderFrames = {} /\ animationFrameId = 0)

\* A resize that replaced the population while the renderer was suspended.
C38_Witness ==
    /\ lastOp = "resize"
    /\ ~starPageVisible
    /\ stars # EmptyBag
    /\ \A s \in BagToSet(stars) : s.pass = "current"
    /\ RenderFrames = {}

\* C31: every companion sits in the Star list directly after its primary
\* (pushed by the same iteration, in the next position), has the primary's
\* colour and animation mode and 60% to 90% of its diameter; a primary has
\* at most one companion.
C31_CompanionFollowsPrimary ==
    /\ \A c \in BagToSet(stars) :
           c.role = "companion" =>
               \E p \in BagToSet(stars) :
                   /\ p.role = "primary"
                   /\ p.first = c.first /\ stars[p] = stars[c]
                   /\ c.slot = p.slot + 1
                   /\ c.color = p.color /\ c.isStatic = p.isStatic
                   /\ 600 * p.size <= 1000 * c.size
                   /\ 1000 * c.size <= 900 * p.size
    /\ \A p \in BagToSet(stars) :
           p.role = "primary" =>
               Cardinality({c \in BagToSet(stars) :
                               c.role = "companion" /\ c.first = p.first}) <= 1

\* A list with a pair whose companion has exactly 60% of the
\* primary's diameter and a colour other than the first class's.
C31_Witness ==
    \E p \in BagToSet(stars), c \in BagToSet(stars) :
        /\ p.role = "primary" /\ c.role = "companion"
        /\ c.first = p.first /\ c.slot = p.slot + 1
        /\ 1000 * c.size = 600 * p.size
        /\ c.color = p.color /\ c.color # getSpectralColor(0)

\* C36: a meteor is appended only while the container exists and
\* heroDiagonal is non-zero, and the animation name it is given, like every
\* name selectMeteorAnimation can return for a preset, is the name of a rule
\* of the catalog installed at that moment.
C36_MeteorNamesInstalledCurve ==
    [][meteors' \ meteors # {} =>
          /\ meteorsContainer /\ heroDiagonal # 0
          /\ meteors' \ meteors = {lastMeteor'.id}
          /\ ({lastMeteor'.animationName}
                 \cup {selectMeteorAnimation(METEOR_ANGLES[i], r) :
                          i \in DOMAIN METEOR_ANGLES,
                          r \in {0, 333, 334, 666, 667, 999}})
                 \subseteq {c.name : c \in InstalledCatalog}
      ]_vars

\* A stream meteor with the last preset and the last tier, appended by a
\* re-armed stream timer while the catalog is installed.
C36_Witness ==
    /\ lastOp = "singleAttempt"
    /\ lastMeteor.id \in meteors
    /\ lastMeteor.animationName = <<"meteor", 165, "long">>
    /\ lastMeteor.animationName \in {c.name : c \in InstalledCatalog}
    /\ firedMeteorTimeouts

\* The preset a staggered callback holding showerAngle snaps to.
SnappedAngle(showerAngle) == selectMeteorAngle(showerAngle, 0)

\* C37: the shower angle lies in [angleMin, angleMax), so a shower meteor
\* never gets the 165 degree preset, and the meteors of one burst all get
\* the same preset: the pending callbacks of a burst hold shower angles that
\* snap to one preset, and a shower meteor gets the preset of the callback
\* that appended it.
C37_ShowerAngleShared ==
    /\ [](\A t \in BagToSet(timers), u \in BagToSet(timers) :
              (t.kind = "showerMeteor" /\ u.kind = "showerMeteor"
                  /\ t.burst = u.burst) =>
                  /\ 10 * angleMin <= t.angle /\ t.angle < 10 * angleMax
                  /\ SnappedAngle(t.angle) = SnappedAngle(u.angle)
                  /\ SnappedAngle(t.angle) # 165)
    /\ []((lastMeteor.id # 0 /\ lastMeteor.baseAngle # NoBaseAngle) =>
              lastMeteor.angle \in {130, 135, 140, 145, 150, 155, 160})
    /\ [][(lastMeteor'.id # 0 /\ lastMeteor'.baseAngle # NoBaseAngle) =>
              \E t \in BagToSet(timers) :
                  /\ t.kind = "showerMeteor"
                  /\ CopiesIn(t, timers') < CopiesIn(t, timers)
                  /\ lastMeteor'.angle = SnappedAngle(t.angle)]_vars

\* A meteor of a burst in progress, appended after at least two others, with
\* the shower angle nearest to angleMax.
C37_Witness ==
    /\ lastOp = "showerMeteor"
    /\ lastMeteor.id # 0
    /\ lastMeteor.baseAngle = 10 * angleMax - 1
    /\ lastMeteor.angle = 160
    /\ Pending("showerMeteor") >= 1
    /\ Pending("showerMeteor") <= showerCountMin - 3
====
